---- MODULE Spec2Model ----
(***************************************************************************)
(* Verification model of three Qt Creator plugin helpers:                  *)
(*   - ClassView::Internal::Utils (classviewutils.cpp): symbol data on     *)
(*     QStandardItem, the icon sort order table, fetchItemToTarget and     *)
(*     moveItemToTarget;                                                   *)
(*   - QmlDumpTool / QmlDumpBuildTask (qmldumptool.cpp): the registry of    *)
(*     qmldump builds, the worker's run() and the queued finish().         *)
(* Strings (QString) are sequences of code units, a QVariant is a tagged   *)
(* record, a QStandardItem is a record of its role data, an identity and   *)
(* its rows.                                                               *)
(***************************************************************************)
EXTENDS Integers, Sequences, FiniteSets, TLC

VARIABLES
    \* ---- classview: tree reconciliation
    item,          \* the live tree (root QStandardItem) or Null
    target,        \* the freshly computed target tree or Null
    before,        \* the live tree as it was when the last call started
    lastOp,        \* "none" | "move" | "fetch": the last call made
    rowOps,        \* insertRow/appendRow/removeRow calls made by the last call
    calls,         \* number of calls made so far
    \* ---- classview: symbol data and icon sort order
    sortOrder,     \* the function-static QHash<int,int> of iconTypeSortOrder
    lastIcon,      \* argument of the last iconTypeSortOrder call (-1: none)
    lastOrder,     \* its return value
    firstIcon,     \* argument of the first iconTypeSortOrder call (-1: none)
    firstOrder,    \* its return value
    stdItem,       \* a QStandardItem whose roles are written and read
    lastInfo,      \* SymbolInformation last written with setSymbolInformationToItem
    readInfo,      \* SymbolInformation last read with symbolInformationFromItem
    \* ---- qt4projectmanager: qmldump
    projects,      \* project -> [id, hasTarget, versionId]: what qtVersionForProject reads
    qtVersions,    \* Qt version id -> [valid, desktop, header]
    tool,          \* Qt version id -> what is at the qmldump binary's place:
                   \* "none", a "file", or a "dir" (exists, is no file)
    qmlDumpBuilds, \* the registry: Qt version id -> its QmlDumpBuildTask or NoTask
    buildsStarted, \* Qt version id -> number of QtConcurrent::run(&QmlDumpBuildTask::run)
    modelManager,  \* QmlJS::ModelManagerInterface::instance() is not null
    projectInfo,   \* project -> ProjectInfo::qmlDumpPath held by the model manager
    gui,           \* the GUI thread: inside qmlDumpPath, or idle with its last result
    finished,      \* number of finish calls run, and the task of the last one
    picked,        \* the last qtVersionForProject call: its project and its result
    \* ---- python: language server state of an interpreter
    lsInput,       \* what checkPythonLanguageServer finds: the output of the two
                   \* python commands, the pyls module paths, the server settings
    lsState,       \* the PythonLanguageServerState it returned
    \* ---- python: PythonLSInstallHelper
    helper,        \* the helper: where it is, its pip process, timer, future
    clientSettings, \* settings registered with the LanguageClientManager
    reopened,      \* documents reopened with a client (reOpenDocumentWithClient)
    messages,      \* what was written to the MessageManager, in order
    \* ---- python: detectPython
    pyInput,       \* the session, the settings and the files detectPython finds
    python,        \* the FilePath detectPython returned
    \* ---- qnx: qnxEnvironmentFromEnvFile
    qnx            \* the call: where it is, its inputs, the cursor stack, its result

treeVars == <<item, target, before, lastOp, rowOps, calls>>
symVars  == <<sortOrder, lastIcon, lastOrder, firstIcon, firstOrder, stdItem,
             lastInfo, readInfo>>
dumpVars == <<projects, qtVersions, tool, qmlDumpBuilds, buildsStarted, modelManager,
             projectInfo, gui, finished>>
verVars  == <<picked>>
pylsVars == <<lsInput, lsState>>
instVars == <<helper, clientSettings, reopened, messages>>
detectVars == <<pyInput, python>>
qnxVars  == <<qnx>>
extVars  == <<verVars, pylsVars, instVars, detectVars, qnxVars>>
vars     == <<treeVars, symVars, dumpVars, extVars>>

(***************************************************************************)
(* Bounds of the model.                                                    *)
(***************************************************************************)
\* total number of rows (at any depth) of the live tree and the target tree together
MaxNodes == 4
\* number of moveItemToTarget / fetchItemToTarget calls in a run
MaxCalls == 2
\* icon values passed to iconTypeSortOrder: 0 .. MaxIcon
MaxIcon == 26
\* number of Qt versions known to the QtVersionManager
NumVersions == 2
\* number of open projects
NumProjects == 2
\* number of configured Python language server settings
MaxSettings == 2
\* number of messages the pip process has written through the helper
MaxOutput == 2
\* number of interpreters configured in the Python settings
MaxInterpreters == 2
\* number of lines the wrapper script of the qnx environment file prints
MaxLines == 2

Null == [null |-> TRUE]

(***************************************************************************)
(* QString, QVariant                                                       *)
(***************************************************************************)
\* "" , "a" , "b" , "int" , "12" as code units
EmptyStr == <<>>
StrA     == <<97>>
StrB     == <<98>>
StrInt   == <<105, 110, 116>>
Str12    == <<49, 50>>

RECURSIVE QStringCompare(_, _)
\* QString::compare: <0, 0, >0, lexicographic by code unit
QStringCompare(s, t) ==
    IF s = <<>> /\ t = <<>> THEN 0
    ELSE IF s = <<>> THEN -1
    ELSE IF t = <<>> THEN 1
    ELSE IF Head(s) < Head(t) THEN -1
    ELSE IF Head(s) > Head(t) THEN 1
    ELSE QStringCompare(Tail(s), Tail(t))

InvalidVariant == [t |-> "invalid"]
IntVariant(n)  == [t |-> "int", i |-> n]
StrVariant(s)  == [t |-> "str", s |-> s]

IsDigit(c) == c >= 48 /\ c <= 57

RECURSIVE DigitsValue(_, _)
DigitsValue(s, acc) ==
    IF s = <<>> THEN acc ELSE DigitsValue(Tail(s), acc * 10 + (Head(s) - 48))

RECURSIVE NatToStr(_)
NatToStr(n) ==
    IF n < 10 THEN <<48 + n>> ELSE NatToStr(n \div 10) \o <<48 + (n % 10)>>

\* QVariant::toString
VariantToString(v) ==
    IF v.t = "str" THEN v.s
    ELSE IF v.t = "int" THEN (IF v.i < 0 THEN <<45>> \o NatToStr(-v.i) ELSE NatToStr(v.i))
    ELSE EmptyStr

\* QVariant::toInt(&ok): [value, ok]
VariantToInt(v) ==
    IF v.t = "int" THEN [value |-> v.i, ok |-> TRUE]
    ELSE IF v.t = "str" /\ v.s # <<>> /\ \A k \in 1..Len(v.s) : IsDigit(v.s[k])
         THEN [value |-> DigitsValue(v.s, 0), ok |-> TRUE]
    ELSE [value |-> 0, ok |-> FALSE]

(***************************************************************************)
(* Icon types and the icon sort order table                                *)
(***************************************************************************)
\* Utils::CodeModelIcon::Type, the enumerators IconSortOrder names and the
\* two it does not name
CodeModelIcon ==
    [Class |-> 0, Struct |-> 1, Enum |-> 2, Enumerator |-> 3,
     FuncPublic |-> 4, FuncProtected |-> 5, FuncPrivate |-> 6,
     FuncPublicStatic |-> 7, FuncProtectedStatic |-> 8, FuncPrivateStatic |-> 9,
     Namespace |-> 10,
     VarPublic |-> 11, VarProtected |-> 12, VarPrivate |-> 13,
     VarPublicStatic |-> 14, VarProtectedStatic |-> 15, VarPrivateStatic |-> 16,
     Signal |-> 17, SlotPublic |-> 18, SlotProtected |-> 19, SlotPrivate |-> 20,
     Keyword |-> 21, Macro |-> 22, Property |-> 23, Unknown |-> 24]

\* Constants::IconSortOrder
IconSortOrder ==
    << CodeModelIcon.Namespace,
       CodeModelIcon.Enum,
       CodeModelIcon.Class,
       CodeModelIcon.FuncPublic,
       CodeModelIcon.FuncProtected,
       CodeModelIcon.FuncPrivate,
       CodeModelIcon.FuncPublicStatic,
       CodeModelIcon.FuncProtectedStatic,
       CodeModelIcon.FuncPrivateStatic,
       CodeModelIcon.Signal,
       CodeModelIcon.SlotPublic,
       CodeModelIcon.SlotProtected,
       CodeModelIcon.SlotPrivate,
       CodeModelIcon.VarPublic,
       CodeModelIcon.VarProtected,
       CodeModelIcon.VarPrivate,
       CodeModelIcon.VarPublicStatic,
       CodeModelIcon.VarProtectedStatic,
       CodeModelIcon.VarPrivateStatic,
       CodeModelIcon.Enumerator,
       CodeModelIcon.Keyword,
       CodeModelIcon.Macro,
       CodeModelIcon.Unknown >>

\* QHash<int,int>: a function on its keys
EmptyHash == [k \in {} |-> 0]
HashCount(h) == Cardinality(DOMAIN h)
HashContains(h, key) == key \in DOMAIN h
\* QHash::insert: a key already present gets the new value
HashInsert(h, key, value) ==
    [k \in (DOMAIN h) \cup {key} |-> IF k = key THEN value ELSE h[k]]

RECURSIVE FillSortOrder(_, _)

\* the table filled with count() + 1
FillSortOrderFromOne(h, k) ==
    IF k > Len(IconSortOrder) THEN h
    ELSE FillSortOrder(HashInsert(h, IconSortOrder[k], HashCount(h) + 1), k + 1)

\* for (int i : Constants::IconSortOrder) sortOrder.insert(i, sortOrder.count());
FillSortOrder(h, k) ==
    IF k > Len(IconSortOrder) THEN h
    ELSE FillSortOrder(HashInsert(h, IconSortOrder[k], HashCount(h)), k + 1)

\* Utils::iconTypeSortOrder(icon) on the static hash h: the hash afterwards and
\* the value returned
iconTypeSortOrder(h, icon) ==
    LET filled == IF HashCount(h) = 0 THEN FillSortOrder(h, 1) ELSE h
    IN  [hash   |-> filled,
         result |-> IF ~HashContains(filled, icon) THEN icon ELSE filled[icon]]

\* the static hash once the first call has filled it
FilledSortOrder == iconTypeSortOrder(EmptyHash, 0).hash

(***************************************************************************)
(* SymbolInformation                                                       *)
(***************************************************************************)
SymbolInformation(name, type, iconType) ==
    [name |-> name, type |-> type, iconType |-> iconType]

\* SymbolInformation::iconTypeSortOrder
InfoIconTypeSortOrder(inf) == iconTypeSortOrder(FilledSortOrder, inf.iconType).result

\* SymbolInformation::operator<
InfoLess(a, b) ==
    LET l == InfoIconTypeSortOrder(a)
        r == InfoIconTypeSortOrder(b)
        cmp == QStringCompare(a.name, b.name)
    IN  IF a.iconType # b.iconType /\ l < r THEN TRUE
        ELSE IF a.iconType # b.iconType /\ l > r THEN FALSE
        ELSE IF cmp < 0 THEN TRUE
        ELSE IF cmp > 0 THEN FALSE
        ELSE QStringCompare(a.type, b.type) < 0

\* SymbolInformation::operator==
InfoEqual(a, b) ==
    a.iconType = b.iconType /\ a.name = b.name /\ a.type = b.type

(***************************************************************************)
(* QStandardItem                                                           *)
(***************************************************************************)
\* a new QStandardItem: no role data, no rows; id tells items apart
NewItem(id) ==
    [SymbolNameRole |-> InvalidVariant, SymbolTypeRole |-> InvalidVariant,
     IconTypeRole |-> InvalidVariant, id |-> id, rows |-> <<>>]

\* Utils::setSymbolInformationToItem
setSymbolInformationToItem(information, it) ==
    [it EXCEPT !.SymbolNameRole = StrVariant(information.name),
               !.SymbolTypeRole = StrVariant(information.type),
               !.IconTypeRole   = IntVariant(information.iconType)]

\* symbolInformationFromItem reading the name from the type role
symbolInformationRolesMixed(it) ==
    IF it = Null THEN SymbolInformation(EmptyStr, EmptyStr, 0)
    ELSE LET conv == IF it.IconTypeRole.t # "invalid" THEN VariantToInt(it.IconTypeRole)
                     ELSE [value |-> 0, ok |-> FALSE]
         IN  SymbolInformation(VariantToString(it.SymbolTypeRole),
                               VariantToString(it.SymbolTypeRole),
                               IF conv.ok THEN conv.value ELSE 0)

\* Utils::symbolInformationFromItem
symbolInformationFromItem(it) ==
    IF it = Null THEN SymbolInformation(EmptyStr, EmptyStr, 0)
    ELSE LET name == VariantToString(it.SymbolNameRole)
             type == VariantToString(it.SymbolTypeRole)
             var  == it.IconTypeRole
             conv == IF var.t # "invalid" THEN VariantToInt(var)
                     ELSE [value |-> 0, ok |-> FALSE]
             iconType == IF conv.ok THEN conv.value ELSE 0
         IN  SymbolInformation(name, type, iconType)

\* QStandardItem::clone: the data of the item, none of its rows, a new identity
CloneId == 0
Clone(it) == [it EXCEPT !.id = CloneId, !.rows = <<>>]

\* QStandardItem::insertRow(row, item), appendRow(item), removeRow(row); rows from 0
InsertRow(rows, row, it) ==
    SubSeq(rows, 1, row) \o <<it>> \o SubSeq(rows, row + 1, Len(rows))
AppendRow(rows, it) == Append(rows, it)
RemoveRow(rows, row) ==
    SubSeq(rows, 1, row) \o SubSeq(rows, row + 2, Len(rows))
\* QStandardItem::child(row)
Child(rows, row) == rows[row + 1]

(***************************************************************************)
(* fetchItemToTarget and moveItemToTarget                                  *)
(* A call returns the item afterwards and the number of insertRow,         *)
(* appendRow and removeRow calls it made (its recursive calls included).   *)
(* The loops run on a record of the locals: rows (the rows of item),       *)
(* itemIndex, targetIndex, itemRows and the three counters.                *)
(***************************************************************************)
NoOps == [ins |-> 0, app |-> 0, rem |-> 0]

LoopStart(it) ==
    [rows |-> it.rows, itemIndex |-> 0, targetIndex |-> 0, itemRows |-> Len(it.rows),
     ins |-> 0, app |-> 0, rem |-> 0]

RECURSIVE FetchMerge(_, _)
RECURSIVE moveItemToTarget(_, _)

\* FetchMerge with the clone inserted behind the row it was compared with
FetchMergeInsertBehind(st, tgt) ==
    IF ~(st.itemIndex < st.itemRows /\ st.targetIndex < Len(tgt.rows)) THEN st
    ELSE LET itemInf   == symbolInformationFromItem(Child(st.rows, st.itemIndex))
             targetInf == symbolInformationFromItem(Child(tgt.rows, st.targetIndex))
         IN  IF InfoLess(itemInf, targetInf)
             THEN FetchMerge([st EXCEPT !.itemIndex = @ + 1], tgt)
             ELSE IF InfoEqual(itemInf, targetInf)
             THEN FetchMerge([st EXCEPT !.itemIndex = @ + 1, !.targetIndex = @ + 1], tgt)
             ELSE FetchMerge([st EXCEPT
                                !.rows = InsertRow(@, st.itemIndex + 1,
                                                   Clone(Child(tgt.rows, st.targetIndex))),
                                !.ins = @ + 1,
                                !.itemIndex = @ + 1,
                                !.itemRows = @ + 1,
                                !.targetIndex = @ + 1], tgt)

\* while (itemIndex < itemRows && targetIndex < targetRows) of fetchItemToTarget
FetchMerge(st, tgt) ==
    IF ~(st.itemIndex < st.itemRows /\ st.targetIndex < Len(tgt.rows)) THEN st
    ELSE LET itemChild   == Child(st.rows, st.itemIndex)
             targetChild == Child(tgt.rows, st.targetIndex)
             itemInf     == symbolInformationFromItem(itemChild)
             targetInf   == symbolInformationFromItem(targetChild)
         IN  IF InfoLess(itemInf, targetInf)
             THEN FetchMerge([st EXCEPT !.itemIndex = @ + 1], tgt)
             ELSE IF InfoEqual(itemInf, targetInf)
             THEN FetchMerge([st EXCEPT !.itemIndex = @ + 1, !.targetIndex = @ + 1], tgt)
             ELSE FetchMerge([st EXCEPT
                                !.rows = InsertRow(@, st.itemIndex, Clone(targetChild)),
                                !.ins = @ + 1,
                                !.itemIndex = @ + 1,
                                !.itemRows = @ + 1,
                                !.targetIndex = @ + 1], tgt)

RECURSIVE FetchAppend(_, _)
\* while (targetIndex < targetRows) of fetchItemToTarget
FetchAppend(st, tgt) ==
    IF ~(st.targetIndex < Len(tgt.rows)) THEN st
    ELSE FetchAppend([st EXCEPT
                        !.rows = AppendRow(@, Clone(Child(tgt.rows, st.targetIndex))),
                        !.app = @ + 1,
                        !.targetIndex = @ + 1], tgt)

\* fetchItemToTarget doing what moveItemToTarget does
fetchLikeMove(it, tgt) == moveItemToTarget(it, tgt)

\* Utils::fetchItemToTarget
fetchItemToTarget(it, tgt) ==
    IF it = Null \/ tgt = Null THEN [item |-> it, ops |-> NoOps]
    ELSE LET st == FetchAppend(FetchMerge(LoopStart(it), tgt), tgt)
         IN  [item |-> [it EXCEPT !.rows = st.rows],
              ops  |-> [ins |-> st.ins, app |-> st.app, rem |-> st.rem]]

RECURSIVE MoveMerge(_, _)
RECURSIVE MoveAppend(_, _)
RECURSIVE MoveRemoveEnd(_)

\* the locals after a recursive call on the row at index row
AfterChildCall(st, row, res) ==
    [st EXCEPT !.rows[row + 1] = res.item,
               !.ins = @ + res.ops.ins,
               !.app = @ + res.ops.app,
               !.rem = @ + res.ops.rem]

\* MoveMerge replacing a row whose symbol equals the target's by a clone
MoveMergeRebuild(st, tgt) ==
    IF ~(st.itemIndex < st.itemRows /\ st.targetIndex < Len(tgt.rows)) THEN st
    ELSE LET itemChild   == Child(st.rows, st.itemIndex)
             targetChild == Child(tgt.rows, st.targetIndex)
             itemInf     == symbolInformationFromItem(itemChild)
             targetInf   == symbolInformationFromItem(targetChild)
         IN  IF InfoLess(itemInf, targetInf) \/ InfoEqual(itemInf, targetInf)
             THEN MoveMerge([st EXCEPT !.rows = RemoveRow(@, st.itemIndex),
                                       !.rem = @ + 1,
                                       !.itemRows = @ - 1], tgt)
             ELSE LET st1 == [st EXCEPT
                                !.rows = InsertRow(@, st.itemIndex, Clone(targetChild)),
                                !.ins = @ + 1]
                      st2 == AfterChildCall(st1, st.itemIndex,
                                 moveItemToTarget(Child(st1.rows, st.itemIndex),
                                                  targetChild))
                  IN  MoveMerge([st2 EXCEPT !.itemIndex = @ + 1,
                                            !.itemRows = @ + 1,
                                            !.targetIndex = @ + 1], tgt)

\* while (itemIndex < itemRows && targetIndex < targetRows) of moveItemToTarget
MoveMerge(st, tgt) ==
    IF ~(st.itemIndex < st.itemRows /\ st.targetIndex < Len(tgt.rows)) THEN st
    ELSE LET itemChild   == Child(st.rows, st.itemIndex)
             targetChild == Child(tgt.rows, st.targetIndex)
             itemInf     == symbolInformationFromItem(itemChild)
             targetInf   == symbolInformationFromItem(targetChild)
         IN  IF InfoLess(itemInf, targetInf)
             THEN MoveMerge([st EXCEPT !.rows = RemoveRow(@, st.itemIndex),
                                       !.rem = @ + 1,
                                       !.itemRows = @ - 1], tgt)
             ELSE IF InfoEqual(itemInf, targetInf)
             THEN LET st1 == AfterChildCall(st, st.itemIndex,
                                            moveItemToTarget(itemChild, targetChild))
                  IN  MoveMerge([st1 EXCEPT !.itemIndex = @ + 1,
                                            !.targetIndex = @ + 1], tgt)
             ELSE LET st1 == [st EXCEPT
                                !.rows = InsertRow(@, st.itemIndex, Clone(targetChild)),
                                !.ins = @ + 1]
                      st2 == AfterChildCall(st1, st.itemIndex,
                                 moveItemToTarget(Child(st1.rows, st.itemIndex),
                                                  targetChild))
                  IN  MoveMerge([st2 EXCEPT !.itemIndex = @ + 1,
                                            !.itemRows = @ + 1,
                                            !.targetIndex = @ + 1], tgt)

\* while (targetIndex < targetRows) of moveItemToTarget
MoveAppend(st, tgt) ==
    IF ~(st.targetIndex < Len(tgt.rows)) THEN st
    ELSE LET st1 == [st EXCEPT
                       !.rows = AppendRow(@, Clone(Child(tgt.rows, st.targetIndex))),
                       !.app = @ + 1]
             st2 == AfterChildCall(st1, st.itemIndex,
                        moveItemToTarget(Child(st1.rows, st.itemIndex),
                                         Child(tgt.rows, st.targetIndex)))
         IN  MoveAppend([st2 EXCEPT !.itemIndex = @ + 1,
                                    !.itemRows = @ + 1,
                                    !.targetIndex = @ + 1], tgt)

\* moveItemToTarget without its last loop
MoveRemoveEndSkipped(st) == st

\* while (itemIndex < itemRows) of moveItemToTarget
MoveRemoveEnd(st) ==
    IF ~(st.itemIndex < st.itemRows) THEN st
    ELSE MoveRemoveEnd([st EXCEPT !.rows = RemoveRow(@, st.itemIndex),
                                  !.rem = @ + 1,
                                  !.itemRows = @ - 1])

\* moveItemToTarget removing every row and cloning the target's anew
moveItemRebuildAll(it, tgt) ==
    IF it = Null \/ tgt = Null THEN [item |-> it, ops |-> NoOps]
    ELSE LET st == MoveAppend([LoopStart(it) EXCEPT !.rows = <<>>, !.itemRows = 0,
                                                    !.rem = Len(it.rows)], tgt)
         IN  [item |-> [it EXCEPT !.rows = st.rows],
              ops  |-> [ins |-> st.ins, app |-> st.app, rem |-> st.rem]]

\* Utils::moveItemToTarget
moveItemToTarget(it, tgt) ==
    IF it = Null \/ tgt = Null THEN [item |-> it, ops |-> NoOps]
    ELSE LET st == MoveRemoveEnd(MoveAppend(MoveMerge(LoopStart(it), tgt), tgt))
         IN  [item |-> [it EXCEPT !.rows = st.rows],
              ops  |-> [ins |-> st.ins, app |-> st.app, rem |-> st.rem]]

(***************************************************************************)
(* The trees the calls are made on                                         *)
(***************************************************************************)
\* the symbols of the rows: a namespace "a", classes "a" and "b"
KeySet ==
    { SymbolInformation(StrA, EmptyStr, CodeModelIcon.Namespace),
      SymbolInformation(StrA, EmptyStr, CodeModelIcon.Class),
      SymbolInformation(StrB, EmptyStr, CodeModelIcon.Class) }

\* the trees (symbol and rows, no identities yet) made of a root symbol, a
\* forest below it of i nodes, followed by a forest of j nodes, the forests
\* taken from tbl (tbl[m + 1]: the forests of m nodes)
ForestsFrom(tbl, n) ==
    UNION { { <<[key |-> k, rows |-> f1]>> \o f2 :
                k \in KeySet, f1 \in tbl[i + 1], f2 \in tbl[n - i] } :
            i \in 0..(n - 1) }

RECURSIVE ForestLevels(_, _)
\* <<forests of 0 nodes, forests of 1 node, ..., forests of top nodes>>
ForestLevels(tbl, top) ==
    IF Len(tbl) > top THEN tbl
    ELSE ForestLevels(Append(tbl, ForestsFrom(tbl, Len(tbl))), top)

ForestTable == ForestLevels(<< { <<>> } >>, MaxNodes)

\* the sequences of trees with n nodes in all
Forests(n) == ForestTable[n + 1]

IdRadix == MaxNodes + 2

RECURSIVE BuildRows(_, _, _)
\* the QStandardItems of a forest; the row k of the item with identity p gets
\* the identity sign * (|p| * IdRadix + k)
BuildRows(forest, parent, sign) ==
    [k \in 1..Len(forest) |->
        LET id == parent * IdRadix + sign * k
        IN  [setSymbolInformationToItem(forest[k].key, NewItem(id))
                EXCEPT !.rows = BuildRows(forest[k].rows, id, sign)]]

\* an invisible root item with the forest as its rows; the live tree has
\* positive identities, the target tree negative ones
BuildTree(forest, sign) ==
    [NewItem(sign) EXCEPT !.rows = BuildRows(forest, sign, sign)]

InitTree ==
    /\ \E ni \in 0..MaxNodes : \E nt \in 0..(MaxNodes - ni) :
         /\ item \in { BuildTree(f, 1) : f \in Forests(ni) }
         /\ target \in { BuildTree(f, -1) : f \in Forests(nt) }
    /\ before = Null
    /\ lastOp = "none"
    /\ rowOps = NoOps
    /\ calls = 0

IdleTree ==
    /\ item = Null /\ target = Null /\ before = Null
    /\ lastOp = "none" /\ rowOps = NoOps /\ calls = 0

\* a call of Utils::moveItemToTarget(item, target)
MoveItemToTarget ==
    /\ calls < MaxCalls
    /\ LET res == moveItemToTarget(item, target)
       IN  /\ item' = res.item
           /\ rowOps' = res.ops
    /\ before' = item
    /\ lastOp' = "move"
    /\ calls' = calls + 1
    /\ UNCHANGED <<target, symVars, dumpVars, extVars>>

\* a call of Utils::fetchItemToTarget(item, target)
FetchItemToTarget ==
    /\ calls < MaxCalls
    /\ LET res == fetchItemToTarget(item, target)
       IN  /\ item' = res.item
           /\ rowOps' = res.ops
    /\ before' = item
    /\ lastOp' = "fetch"
    /\ calls' = calls + 1
    /\ UNCHANGED <<target, symVars, dumpVars, extVars>>

(***************************************************************************)
(* Symbol data on an item, and the icon sort order                         *)
(***************************************************************************)
NoInfo == [none |-> TRUE]

IdleSym ==
    /\ sortOrder = EmptyHash
    /\ lastIcon = -1
    /\ lastOrder = -1
    /\ firstIcon = -1
    /\ firstOrder = -1
    /\ stdItem = NewItem(1)
    /\ lastInfo = NoInfo
    /\ readInfo = NoInfo

\* the icon values iconTypeSortOrder is called with
IconValues == 0..MaxIcon

\* the symbols written to the item
InfoDomain ==
    { SymbolInformation(n, t, i) :
        n \in {StrA, StrB}, t \in {EmptyStr, StrInt},
        i \in {CodeModelIcon.Class, CodeModelIcon.Property, -1} }

\* what setData(value, Constants::IconTypeRole) is called with besides an int:
\* nothing valid, a text that is no number, a text that is one
OtherIconData == { InvalidVariant, StrVariant(StrA), StrVariant(EmptyStr), StrVariant(Str12) }

\* a call of Utils::iconTypeSortOrder(icon)
IconTypeSortOrderCall ==
    \E icon \in IconValues :
        LET res == iconTypeSortOrder(sortOrder, icon)
        IN  /\ sortOrder' = res.hash
            /\ lastIcon' = icon
            /\ lastOrder' = res.result
            /\ firstIcon' = IF firstIcon = -1 THEN icon ELSE firstIcon
            /\ firstOrder' = IF firstIcon = -1 THEN res.result ELSE firstOrder
            /\ UNCHANGED <<stdItem, lastInfo, readInfo, treeVars, dumpVars, extVars>>

\* a call of Utils::setSymbolInformationToItem(information, stdItem)
SetSymbolInformation ==
    \E information \in InfoDomain :
        /\ stdItem' = setSymbolInformationToItem(information, stdItem)
        /\ lastInfo' = information
        /\ readInfo' = NoInfo
        /\ UNCHANGED <<sortOrder, lastIcon, lastOrder, firstIcon, firstOrder, treeVars,
                       dumpVars, extVars>>

\* stdItem->setData(v, Constants::IconTypeRole) made elsewhere
SetIconData ==
    \E v \in OtherIconData :
        /\ stdItem' = [stdItem EXCEPT !.IconTypeRole = v]
        /\ lastInfo' = NoInfo
        /\ readInfo' = NoInfo
        /\ UNCHANGED <<sortOrder, lastIcon, lastOrder, firstIcon, firstOrder, treeVars,
                       dumpVars, extVars>>

\* a call of Utils::symbolInformationFromItem(stdItem)
ReadSymbolInformation ==
    /\ readInfo' = symbolInformationFromItem(stdItem)
    /\ UNCHANGED <<sortOrder, lastIcon, lastOrder, firstIcon, firstOrder, stdItem,
                   lastInfo, treeVars, dumpVars, extVars>>



(***************************************************************************)
(* qmldump: Qt versions, projects, the build registry                      *)
(* A path is a QString: EmptyStr, or ToolPath(v) for the qmldump binary    *)
(* of Qt version v. The worker thread of a task and the GUI thread         *)
(* interleave: qmlDumpPath runs in two steps, around its second            *)
(* qtVersionForProject call; finish runs on the GUI thread between calls.  *)
(***************************************************************************)
Versions == 1..NumVersions
Projects == 1..NumProjects
\* a null QtVersion *, a null ProjectExplorer::Project *
NoVersion == 0
NoProject == 0
NoTask == [none |-> TRUE]

ToolPath(v) == <<v>>

\* QmlDumpTool::toolByInstallData for the install data of version v
toolByInstallData(v) == IF tool[v] # "none" THEN ToolPath(v) ELSE EmptyStr

\* QmlDumpTool::canBuild
canBuild(v) == qtVersions[v].desktop /\ qtVersions[v].header

\* QtVersionManager::validVersions, in the manager's order
validVersions == SelectSeq([v \in Versions |-> v], LAMBDA v : qtVersions[v].valid)

RECURSIVE FindDesktopQt(_, _)
\* the foreach taking the first desktop version that can be built, whether or
\* not a later one has the tool
FindDesktopQtFirstBuildable(k, desktopQt) ==
    IF k > Len(validVersions) THEN desktopQt
    ELSE LET version == validVersions[k]
         IN  IF qtVersions[version].desktop
                  /\ (toolByInstallData(version) # EmptyStr \/ canBuild(version))
             THEN version
             ELSE FindDesktopQt(k + 1, desktopQt)

\* the foreach of qtVersionForProject from the k-th valid version on, desktopQt
\* being the first buildable desktop version seen so far
FindDesktopQt(k, desktopQt) ==
    IF k > Len(validVersions) THEN desktopQt
    ELSE LET version == validVersions[k]
         IN  IF qtVersions[version].desktop
             THEN IF toolByInstallData(version) # EmptyStr THEN version
                  ELSE IF desktopQt = NoVersion /\ canBuild(version)
                       THEN FindDesktopQt(k + 1, version)
                       ELSE FindDesktopQt(k + 1, desktopQt)
             ELSE FindDesktopQt(k + 1, desktopQt)

\* qtVersionForProject; project is NoProject or a key of projects
qtVersionForProject(project) ==
    IF project # NoProject /\ projects[project].id = "Qt4Project"
    THEN IF projects[project].hasTarget /\ qtVersions[projects[project].versionId].valid
         THEN projects[project].versionId
         ELSE NoVersion
    ELSE IF project # NoProject /\ projects[project].id = "QmlProject"
    THEN IF ~projects[project].hasTarget THEN NoVersion
         ELSE IF projects[project].versionId \notin Versions THEN NoVersion
         ELSE IF qtVersions[projects[project].versionId].valid
              THEN projects[project].versionId
              ELSE NoVersion
    ELSE FindDesktopQt(1, NoVersion)

\* QmlDumpTool::toolForProject
toolForProject(project) ==
    LET version == qtVersionForProject(project)
    IN  IF version # NoVersion THEN toolByInstallData(version) ELSE EmptyStr

\* QmlDumpBuildTask::QmlDumpBuildTask, followed by updateProjectWhenDone(project)
\* and QtConcurrent::run
NewBuildTask(version, project) ==
    [version |-> version, failed |-> FALSE, projectsToUpdate |-> {project},
     pc |-> "running", path |-> EmptyStr]

\* QmlDumpBuildTask::updateProjectWhenDone
updateProjectWhenDone(task, project) ==
    [task EXCEPT !.projectsToUpdate = @ \cup {project}]

\* QmlDumpBuildTask::hasFailed
hasFailed(task) == task.failed

\* what hasFailed() can return to the GUI thread: m_failed is a plain bool that
\* run stores on the worker thread with no synchronisation, so a read made
\* while the worker is at the store yields the old or the new value
hasFailedReads(task) ==
    IF task.pc = "storing"
    THEN {task.failed, task.path = EmptyStr}
    ELSE {hasFailed(task)}

\* new QmlDumpBuildTask(version), updateProjectWhenDone, QtConcurrent::run
StartBuild(builds, started, version, project) ==
    [builds  |-> [builds EXCEPT ![version] = NewBuildTask(version, project)],
     started |-> [started EXCEPT ![version] = @ + 1]]

\* the block of qmlDumpPath without the registry lookup
BuildBlockNoLookup(builds, started, version, project, failed) ==
    StartBuild(builds, started, version, project)

\* the block of qmlDumpPath without the hasFailed test
BuildBlockFailedIgnored(builds, started, version, project, failed) ==
    IF builds[version] # NoTask
    THEN [builds  |-> [builds EXCEPT ![version] = updateProjectWhenDone(@, project)],
          started |-> started]
    ELSE StartBuild(builds, started, version, project)

\* the block of qmlDumpPath entered with a version and an empty path: the
\* registry and the number of builds started afterwards; failed is what
\* hasFailed() returned, if it was called
BuildBlock(builds, started, version, project, failed) ==
    IF builds[version] # NoTask
    THEN IF ~failed
         THEN [builds  |-> [builds EXCEPT ![version] = updateProjectWhenDone(@, project)],
               started |-> started]
         ELSE [builds |-> builds, started |-> started]
    ELSE StartBuild(builds, started, version, project)

\* QmlDumpTool::qmlDumpPath up to and including toolForProject(project)
QmlDumpPathBegin ==
    \E project \in Projects :
        /\ gui.pc = "idle"
        /\ gui' = [pc |-> "inCall", project |-> project, version |-> NoVersion,
                   path |-> toolForProject(project)]
        /\ UNCHANGED <<projects, qtVersions, tool, qmlDumpBuilds, buildsStarted,
                       modelManager, projectInfo, finished, treeVars, symVars, extVars>>

\* the path without the QFileInfo tests
LocatedPathUnchecked(path) == path

\* the path qmlDumpPath returns for a located path: cleared if nothing is
\* there or what is there is no file
LocatedPath(path) ==
    IF path # EmptyStr /\ tool[Head(path)] # "file" THEN EmptyStr ELSE path

\* the rest of QmlDumpTool::qmlDumpPath, from the second qtVersionForProject on
QmlDumpPathEnd ==
    /\ gui.pc = "inCall"
    /\ LET version == qtVersionForProject(gui.project)
       IN  IF version # NoVersion /\ gui.path = EmptyStr
           THEN \E failed \in (IF qmlDumpBuilds[version] # NoTask
                                THEN hasFailedReads(qmlDumpBuilds[version])
                                ELSE {FALSE}) :
                  /\ LET res == BuildBlock(qmlDumpBuilds, buildsStarted, version,
                                           gui.project, failed)
                     IN  /\ qmlDumpBuilds' = res.builds
                         /\ buildsStarted' = res.started
                  /\ gui' = [gui EXCEPT !.pc = "idle", !.version = version]
           ELSE /\ UNCHANGED <<qmlDumpBuilds, buildsStarted>>
                /\ gui' = [gui EXCEPT
                             !.pc = "idle", !.version = version,
                             !.path = LocatedPath(gui.path)]
    /\ UNCHANGED <<projects, qtVersions, tool, modelManager, projectInfo, finished,
                   treeVars, symVars, extVars>>

\* the task when QmlDumpBuildTask::run has computed path: helperBuilt is what
\* buildDebuggingHelperLibrary returned, found what toolByInstallData returned
TaskAfterBuild(task, helperBuilt, found) ==
    [task EXCEPT !.pc = "storing",
                 !.path = IF helperBuilt THEN found ELSE EmptyStr]

\* the task after the rest of run, finish never queued
TaskAfterRunFinishDropped(task) ==
    [task EXCEPT !.failed = (task.path = EmptyStr), !.pc = "ended"]

\* the task after the rest of run: m_failed = path.isEmpty(), and finish
\* queued to the GUI thread if it has not failed
TaskAfterRun(task) ==
    [task EXCEPT !.failed = (task.path = EmptyStr),
                 !.pc = IF task.path = EmptyStr THEN "ended" ELSE "finishQueued"]

\* QmlDumpBuildTask::run on the worker thread up to the store of m_failed; the
\* build leaves a binary or not
Run ==
    \E version \in Versions, helperBuilt \in BOOLEAN, produced \in BOOLEAN :
        /\ qmlDumpBuilds[version] # NoTask
        /\ qmlDumpBuilds[version].pc = "running"
        /\ tool' = IF helperBuilt /\ produced THEN [tool EXCEPT ![version] = "file"]
                   ELSE tool
        /\ qmlDumpBuilds' =
             [qmlDumpBuilds EXCEPT ![version] =
                TaskAfterBuild(@, helperBuilt,
                               IF tool'[version] # "none" THEN ToolPath(version)
                               ELSE EmptyStr)]
        /\ UNCHANGED <<projects, qtVersions, buildsStarted, modelManager, projectInfo,
                       gui, finished, treeVars, symVars, extVars>>

\* the rest of QmlDumpBuildTask::run on the worker thread: the store of
\* m_failed and the queued call of finish
RunStore ==
    \E version \in Versions :
        /\ qmlDumpBuilds[version] # NoTask
        /\ qmlDumpBuilds[version].pc = "storing"
        /\ qmlDumpBuilds' = [qmlDumpBuilds EXCEPT ![version] = TaskAfterRun(@)]
        /\ UNCHANGED <<projects, qtVersions, tool, buildsStarted, modelManager,
                       projectInfo, gui, finished, treeVars, symVars, extVars>>

\* the project infos after the foreach of finish, writing every project
ProjectInfoOverwritten(info, task, qmldumpPath) ==
    [project \in DOMAIN info |->
        IF project \in task.projectsToUpdate THEN qmldumpPath ELSE info[project]]

\* the project infos after the foreach of QmlDumpBuildTask::finish
ProjectInfoAfterFinish(info, task, qmldumpPath) ==
    [project \in DOMAIN info |->
        IF project \in task.projectsToUpdate /\ info[project] = EmptyStr
        THEN qmldumpPath
        ELSE info[project]]

\* qmlDumpBuilds()->remove(m_version.uniqueId())
RegistryRemove(builds, version) == [builds EXCEPT ![version] = NoTask]

\* QmlDumpBuildTask::finish(qmldumpPath), the queued call delivered by the GUI
\* thread's event loop
Finish ==
    \E version \in Versions :
        /\ gui.pc = "idle"
        /\ qmlDumpBuilds[version] # NoTask
        /\ qmlDumpBuilds[version].pc = "finishQueued"
        /\ qmlDumpBuilds' = RegistryRemove(qmlDumpBuilds, qmlDumpBuilds[version].version)
        /\ projectInfo' =
             IF ~modelManager THEN projectInfo
             ELSE ProjectInfoAfterFinish(projectInfo, qmlDumpBuilds[version],
                                         qmlDumpBuilds[version].path)
        /\ finished' = [count |-> finished.count + 1, task |-> qmlDumpBuilds[version]]
        /\ UNCHANGED <<projects, qtVersions, tool, buildsStarted, modelManager, gui,
                       treeVars, symVars, extVars>>

\* the caller of qmlDumpPath stores the path it got in the project's info
StoreReturnedPath ==
    /\ gui.pc = "idle"
    /\ gui.project # NoProject
    /\ modelManager
    /\ projectInfo' = [projectInfo EXCEPT ![gui.project] = gui.path]
    /\ UNCHANGED <<projects, qtVersions, tool, qmlDumpBuilds, buildsStarted,
                   modelManager, gui, finished, treeVars, symVars, extVars>>

(***************************************************************************)
(* qtVersionForProject on its own: any project, any set of Qt versions     *)
(***************************************************************************)
NoPick == [none |-> TRUE]
IdleVer == picked = NoPick

\* what qtVersionForProject reads of a project: a Qt4 project with or without
\* an active build configuration, a QmlProject with or without an active run
\* configuration whose qtVersionId names a version or none, another project
VersionProjects ==
    { [id |-> "Qt4Project", hasTarget |-> TRUE, versionId |-> v] : v \in Versions }
    \cup { [id |-> "QmlProject", hasTarget |-> TRUE, versionId |-> v] :
              v \in Versions \cup {NoVersion} }
    \cup { [id |-> "Qt4Project", hasTarget |-> FALSE, versionId |-> NoVersion],
           [id |-> "QmlProject", hasTarget |-> FALSE, versionId |-> NoVersion],
           [id |-> "Other", hasTarget |-> FALSE, versionId |-> NoVersion] }

InitVersions ==
    /\ projects \in { [p \in Projects |->
                          IF p = 1 THEN k
                          ELSE [id |-> "Other", hasTarget |-> FALSE,
                                versionId |-> NoVersion]] : k \in VersionProjects }
    /\ qtVersions \in [Versions -> [valid : BOOLEAN, desktop : BOOLEAN,
                                    header : BOOLEAN]]
    /\ tool \in [Versions -> {"none", "file"}]
    /\ qmlDumpBuilds = [v \in Versions |-> NoTask]
    /\ buildsStarted = [v \in Versions |-> 0]
    /\ modelManager = TRUE
    /\ projectInfo = [p \in Projects |-> EmptyStr]
    /\ gui = [pc |-> "idle", project |-> NoProject, version |-> NoVersion,
              path |-> EmptyStr]
    /\ finished = [count |-> 0, task |-> NoTask]

\* a call of qtVersionForProject, for a project or a null pointer
QtVersionForProjectCall ==
    \E project \in Projects \cup {NoProject} :
        /\ picked' = [project |-> project, version |-> qtVersionForProject(project)]
        /\ UNCHANGED <<treeVars, symVars, dumpVars, pylsVars, instVars, detectVars, qnxVars>>

(***************************************************************************)
(* python: checkPythonLanguageServer                                       *)
(* The output of a python command is a QString; the pyls module path       *)
(* getPylsModulePath finds for a command line is an input, empty if the    *)
(* verbose output names no pyls/__init__.py.                               *)
(***************************************************************************)
\* "Python Language Server"
PylsBanner ==
    <<80, 121, 116, 104, 111, 110, 32, 76, 97, 110, 103, 117, 97, 103, 101,
      32, 83, 101, 114, 118, 101, 114>>
\* "pip "
PipPrefix == <<112, 105, 112, 32>>

\* QString::startsWith
QStringStartsWith(s, prefix) ==
    /\ Len(prefix) <= Len(s)
    /\ \A k \in 1..Len(prefix) : s[k] = prefix[k]

RECURSIVE QStringIndexOf(_, _, _)
\* QString::indexOf(needle, from), zero-based, -1 if needle does not occur
QStringIndexOf(s, needle, from) ==
    IF from + Len(needle) > Len(s) THEN -1
    ELSE IF SubSeq(s, from + 1, from + Len(needle)) = needle THEN from
    ELSE QStringIndexOf(s, needle, from + 1)

\* QString::contains
QStringContains(s, needle) == QStringIndexOf(s, needle, 0) # -1

\* outputs of 'python -m pyls -h': the usage text of pyls, the banner in
\* lower case, the banner cut short, an error of python, nothing
HelpOutputs ==
    { <<117, 115, 97, 103, 101, 58, 32>> \o PylsBanner \o <<10>>,
      PylsBanner,
    <<112, 121, 116, 104, 111, 110, 32, 108, 97, 110, 103, 117, 97, 103,
      101, 32, 115, 101, 114, 118, 101, 114>>,
      SubSeq(PylsBanner, 1, Len(PylsBanner) - 1),
    <<78, 111, 32, 109, 111, 100, 117, 108, 101, 32, 110, 97, 109, 101,
      100, 32, 112, 121, 108, 115>>,
      EmptyStr }

\* outputs of 'python -m pip -V'
PipOutputs ==
    { PipPrefix \o <<50, 48>>,
      PipPrefix,
      <<32>> \o PipPrefix,
      <<112, 105, 112>>,
      <<80, 105, 112, 32, 50, 48>>,
    <<78, 111, 32, 109, 111, 100, 117, 108, 101, 32, 110, 97, 109, 101,
      100, 32, 112, 105, 112>>,
      EmptyStr }

\* FilePath of a pyls module: none found, or one of two site-packages
ModulePaths == { EmptyStr, <<47, 97>>, <<47, 98>> }

\* a StdIOSettings of configuredPythonLanguageServer(): m_enabled and the
\* module path getPylsModulePath finds for its command
ServerSettings == [enabled : BOOLEAN, modulePath : ModulePaths]

RECURSIVE SeqsUpTo(_, _)
\* the sequences over S of length at most n
SeqsUpTo(S, n) ==
    IF n = 0 THEN { <<>> }
    ELSE LET shorter == SeqsUpTo(S, n - 1)
         IN  shorter \cup { Append(q, x) : q \in shorter, x \in S }

NoState == [none |-> TRUE]
LanguageServerState(state, pylsModulePath) ==
    [state |-> state, pylsModulePath |-> pylsModulePath]

RECURSIVE CheckSettings(_, _, _)
\* the loop taking the last setting whose module path is the interpreter's
CheckSettingsLastMatch(settings, k, modulePath) ==
    LET matching == { i \in k..Len(settings) : settings[i].modulePath = modulePath }
    IN  IF matching = {} THEN LanguageServerState("AlreadyInstalled", modulePath)
        ELSE LET last == CHOOSE i \in matching : \A j \in matching : j <= i
             IN  LanguageServerState(IF settings[last].enabled THEN "AlreadyConfigured"
                                     ELSE "ConfiguredButDisabled", EmptyStr)

\* the for loop of checkPythonLanguageServer from the k-th setting on, and the
\* return that follows it
CheckSettings(settings, k, modulePath) ==
    IF k > Len(settings)
    THEN LanguageServerState("AlreadyInstalled", modulePath)
    ELSE IF modulePath = settings[k].modulePath
         THEN LanguageServerState(IF settings[k].enabled THEN "AlreadyConfigured"
                                  ELSE "ConfiguredButDisabled", EmptyStr)
         ELSE CheckSettings(settings, k + 1, modulePath)

\* checkPythonLanguageServer(python), in being what the commands print and
\* what is configured
checkPythonLanguageServer(in) ==
    IF QStringContains(in.help, PylsBanner)
    THEN CheckSettings(in.settings, 1, in.modulePath)
    ELSE IF QStringStartsWith(in.pip, PipPrefix)
         THEN LanguageServerState("CanBeInstalled", EmptyStr)
         ELSE LanguageServerState("CanNotBeInstalled", EmptyStr)

InitPyls ==
    /\ lsInput \in [help : HelpOutputs, pip : PipOutputs, modulePath : ModulePaths,
                     settings : SeqsUpTo(ServerSettings, MaxSettings)]
    /\ lsState = NoState

IdlePyls ==
    /\ lsInput = [help |-> EmptyStr, pip |-> EmptyStr, modulePath |-> EmptyStr,
                  settings |-> <<>>]
    /\ lsState = NoState

CheckPythonLanguageServer ==
    /\ lsState = NoState
    /\ lsState' = checkPythonLanguageServer(lsInput)
    /\ UNCHANGED <<lsInput, treeVars, symVars, dumpVars, verVars, instVars, detectVars,
                   qnxVars>>

(***************************************************************************)
(* python: PythonLSInstallHelper                                           *)
(* The helper lives on the GUI thread: run() starts pip, the slots run     *)
(* when the process writes or ends, the timer fires or the task is         *)
(* canceled. A process that is stopped ends with CrashExit.                *)
(***************************************************************************)
InterpreterPaths == { <<47, 112, 49>>, <<47, 112, 50>> }
ExitCodes == {0, 1, 15}
ExitStatuses == {"NormalExit", "CrashExit"}
\* what the process has written when a readyRead signal arrives
OutputChunks == { EmptyStr, <<32>>, StrA, <<32, 97, 10>> }

IsSpace(c) == c \in {9, 10, 11, 12, 13, 32}
RECURSIVE TrimLeft(_)
TrimLeft(s) == IF s # <<>> /\ IsSpace(Head(s)) THEN TrimLeft(Tail(s)) ELSE s
RECURSIVE TrimRight(_)
TrimRight(s) ==
    IF s # <<>> /\ IsSpace(s[Len(s)]) THEN TrimRight(SubSeq(s, 1, Len(s) - 1)) ELSE s
\* QByteArray::trimmed
Trimmed(s) == TrimRight(TrimLeft(s))

\* the messages of the helper
RunningMsg == [kind |-> "running"]
CanceledMsg(by) == [kind |-> "canceled", by |-> by]
FailedMsg(exitCode) == [kind |-> "failed", exitCode |-> exitCode]
OutputMsg(text) == [kind |-> "output", text |-> text]

\* PythonLSInstallHelper::PythonLSInstallHelper
NewHelper(pythonPath, document) ==
    [pc |-> "created", python |-> pythonPath, document |-> document,
     process |-> "notStarted", killTimer |-> "inactive", futureFinished |-> FALSE,
     futureCanceled |-> FALSE, deleteLater |-> FALSE, outputs |-> 0,
     exitCode |-> 0, exitStatus |-> "NormalExit"]

\* what the helper works on: itself and what it writes to
InstallState(h, settings, docs, msgs) ==
    [helper |-> h, clientSettings |-> settings, reopened |-> docs, messages |-> msgs]

\* registerLanguageServer: the settings registered for python
registerLanguageServer(settings, pythonPath) ==
    Append(settings, [executable |-> pythonPath, arguments |-> "-m pyls",
                      mimeTypes |-> <<"text/x-python">>])

\* installFinished registering whenever the exit code is 0
installFinishedCodeOnly(st, exitCode, exitStatus, client) ==
    LET h == [st.helper EXCEPT !.pc = "finished", !.futureFinished = TRUE,
                               !.deleteLater = TRUE, !.exitCode = exitCode,
                               !.exitStatus = exitStatus]
    IN  IF exitCode = 0
        THEN InstallState(h, registerLanguageServer(st.clientSettings, h.python),
                          IF client THEN Append(st.reopened, h.document)
                          ELSE st.reopened,
                          st.messages)
        ELSE InstallState(h, st.clientSettings, st.reopened,
                          Append(st.messages, FailedMsg(exitCode)))

\* PythonLSInstallHelper::installFinished(exitCode, exitStatus); client: the
\* LanguageClientManager has a client for the new settings
installFinished(st, exitCode, exitStatus, client) ==
    LET h == [st.helper EXCEPT !.pc = "finished", !.futureFinished = TRUE,
                               !.deleteLater = TRUE, !.exitCode = exitCode,
                               !.exitStatus = exitStatus]
    IN  IF exitStatus = "NormalExit" /\ exitCode = 0
        THEN InstallState(h, registerLanguageServer(st.clientSettings, h.python),
                          IF client THEN Append(st.reopened, h.document)
                          ELSE st.reopened,
                          st.messages)
        ELSE InstallState(h, st.clientSettings, st.reopened,
                          Append(st.messages, FailedMsg(exitCode)))

InstallNow == InstallState(helper, clientSettings, reopened, messages)
InstallBecomes(st) ==
    /\ helper' = st.helper
    /\ clientSettings' = st.clientSettings
    /\ reopened' = st.reopened
    /\ messages' = st.messages

notInstVars == <<treeVars, symVars, dumpVars, verVars, pylsVars, detectVars, qnxVars>>

\* PythonLSInstallHelper::run: the process starts, or fails to start
HelperRun ==
    \E started \in BOOLEAN :
        /\ helper.pc = "created"
        /\ helper' = [helper EXCEPT
                         !.pc = "running",
                         !.process = IF started THEN "running" ELSE "failedToStart",
                         !.killTimer = "active"]
        /\ messages' = Append(messages, RunningMsg)
        /\ UNCHANGED <<clientSettings, reopened, notInstVars>>

\* outputAvailable / errorAvailable
OutputAvailable ==
    \E chunk \in OutputChunks :
        /\ helper.pc = "running" /\ helper.process = "running"
        /\ helper.outputs < MaxOutput
        /\ helper' = [helper EXCEPT !.outputs = @ + 1]
        /\ messages' = IF Trimmed(chunk) # EmptyStr
                       THEN Append(messages, OutputMsg(Trimmed(chunk)))
                       ELSE messages
        /\ UNCHANGED <<clientSettings, reopened, notInstVars>>

\* the process ends by itself: QProcess::finished calls installFinished
ProcessFinished ==
    \E exitCode \in ExitCodes, exitStatus \in ExitStatuses, client \in BOOLEAN :
        /\ helper.pc = "running" /\ helper.process = "running"
        /\ InstallBecomes(installFinished(
               [InstallNow EXCEPT !.helper.process = "exited"],
               exitCode, exitStatus, client))
        /\ UNCHANGED notInstVars

\* PythonLSInstallHelper::cancel, called because the timer has fired (by =
\* "time out") or the task was canceled (by = "user"): stopProcess ends a
\* running process, whose finished signal calls installFinished, then the
\* message is written
Cancel ==
    \E by \in {"user", "time out"}, exitCode \in ExitCodes, client \in BOOLEAN :
        /\ helper.pc = "running"
        /\ by = "time out" => helper.killTimer = "active"
        /\ by = "user" => ~helper.futureCanceled
        /\ LET h == [helper EXCEPT
                        !.killTimer = IF by = "time out" THEN "inactive" ELSE @,
                        !.futureCanceled = IF by = "user" THEN TRUE ELSE @]
               now == [InstallNow EXCEPT !.helper = h]
               stopped == IF h.process = "running"
                          THEN installFinished([now EXCEPT !.helper.process = "killed"],
                                               exitCode, "CrashExit", client)
                          ELSE now
           IN  InstallBecomes([stopped EXCEPT
                                 !.messages = Append(@, CanceledMsg(
                                     IF h.killTimer = "active" THEN "user"
                                     ELSE "time out"))])
        /\ UNCHANGED notInstVars

InitInstall ==
    /\ helper \in { NewHelper(p, 1) : p \in InterpreterPaths }
    /\ clientSettings = <<>>
    /\ reopened = <<>>
    /\ messages = <<>>

IdleInstall ==
    /\ helper = NewHelper(<<47, 112, 49>>, 1)
    /\ clientSettings = <<>>
    /\ reopened = <<>>
    /\ messages = <<>>

(***************************************************************************)
(* python: detectPython                                                    *)
(* A FilePath is a QString; exists() is false for the empty path and for   *)
(* every path that is not among the existing files.                        *)
(***************************************************************************)
FilePaths == { <<47, 97>>, <<47, 98>>, <<47, 99>> }
NoPythonYet == [none |-> TRUE]
NoProjectFound == [none |-> TRUE]

\* what a project of the session is to detectPython: a project that is no
\* PythonProject; a PythonProject without active target, with a target whose
\* active run configuration is no PythonRunConfiguration, or with one and
\* its interpreter
SessionProjects ==
    { [isPython |-> FALSE, hasTarget |-> TRUE, pyRunConfig |-> FALSE,
       interpreter |-> EmptyStr],
      [isPython |-> TRUE, hasTarget |-> FALSE, pyRunConfig |-> FALSE,
       interpreter |-> EmptyStr],
      [isPython |-> TRUE, hasTarget |-> TRUE, pyRunConfig |-> FALSE,
       interpreter |-> EmptyStr] }
    \cup { [isPython |-> TRUE, hasTarget |-> TRUE, pyRunConfig |-> TRUE,
            interpreter |-> f] : f \in {EmptyStr, <<47, 97>>, <<47, 98>>} }

\* FilePath::exists
PathExists(in, path) == path \in in.existing

\* the project of detectPython, never the startup project
PythonProjectOfDocumentOnly(in) ==
    IF in.projectForFile # NoProjectFound /\ in.projectForFile.isPython
    THEN in.projectForFile
    ELSE NoProjectFound

\* the PythonProject detectPython takes: the one the document belongs to,
\* else the startup project if it is one
PythonProjectFor(in) ==
    IF in.projectForFile # NoProjectFound /\ in.projectForFile.isPython
    THEN in.projectForFile
    ELSE IF in.startupProject # NoProjectFound /\ in.startupProject.isPython
         THEN in.startupProject
         ELSE NoProjectFound

\* the interpreter of the active run configuration of project, empty if
\* there is none
RunConfigInterpreter(project) ==
    IF project # NoProjectFound /\ project.hasTarget /\ project.pyRunConfig
    THEN project.interpreter
    ELSE EmptyStr

\* detectPython(documentPath)
detectPython(in) ==
    LET fromProject == RunConfigInterpreter(PythonProjectFor(in))
        fromDefault == IF ~PathExists(in, fromProject)
                       THEN in.defaultInterpreter ELSE fromProject
    IN  IF ~PathExists(in, fromDefault) /\ in.interpreters # <<>>
        THEN in.interpreters[1]
        ELSE fromDefault

InitDetect ==
    /\ pyInput \in [projectForFile : SessionProjects \cup {NoProjectFound},
                     startupProject : SessionProjects \cup {NoProjectFound},
                     defaultInterpreter : FilePaths \cup {EmptyStr},
                     interpreters : SeqsUpTo(FilePaths, MaxInterpreters),
                     existing : SUBSET FilePaths]
    /\ python = NoPythonYet

IdleDetect ==
    /\ pyInput = [projectForFile |-> NoProjectFound, startupProject |-> NoProjectFound,
                  defaultInterpreter |-> EmptyStr, interpreters |-> <<>>,
                  existing |-> {}]
    /\ python = NoPythonYet

DetectPython ==
    /\ python = NoPythonYet
    /\ python' = detectPython(pyInput)
    /\ UNCHANGED <<pyInput, treeVars, symVars, dumpVars, verVars, pylsVars, instVars,
                   qnxVars>>

(***************************************************************************)
(* qnx: qnxEnvironmentFromEnvFile                                          *)
(* The call blocks the GUI thread; the wrapper process runs beside it      *)
(* while the call waits. The override cursors of the application are a     *)
(* stack, of which the depth is kept.                                      *)
(***************************************************************************)
\* lines the wrapper prints: "A=b", "A", "=b", "A=b=c" and an empty line
OutputLines ==
    { <<65, 61, 98>>, <<65>>, <<61, 98>>, <<65, 61, 98, 61, 99>>, EmptyStr }

\* the call not made yet, cursor override cursors being set by its caller
NewQnx(cursor) ==
    [pc |-> "idle", fileExists |-> FALSE, tmpOpened |-> FALSE,
     process |-> "notStarted", exitStatus |-> "NormalExit", exitCode |-> 0,
     output |-> <<>>, waitResult |-> FALSE, stopped |-> FALSE,
     cursorAtCall |-> cursor, cursor |-> cursor, items |-> <<>>]

\* Utils::EnvironmentItem(var, value)
EnvironmentItem(var, value) == [name |-> var, value |-> value]

RECURSIVE ParseOutput(_, _)
\* the while loop of qnxEnvironmentFromEnvFile over the lines left to read
ParseOutput(lines, items) ==
    IF lines = <<>> THEN items
    ELSE LET line == Head(lines)
             equalIndex == QStringIndexOf(line, <<61>>, 0)
         IN  IF equalIndex < 0 THEN ParseOutput(Tail(lines), items)
             ELSE ParseOutput(Tail(lines),
                              Append(items,
                                     EnvironmentItem(SubSeq(line, 1, equalIndex),
                                                     SubSeq(line, equalIndex + 2,
                                                            Len(line)))))

\* the test of the process's end looking at the exit code only
ExitFailedCodeOnly(exitStatus, exitCode) == exitCode # 0

\* process.exitStatus() != QProcess::NormalExit || process.exitCode() != 0
ExitFailed(exitStatus, exitCode) == exitStatus # "NormalExit" \/ exitCode # 0

notQnxVars == <<treeVars, symVars, dumpVars, verVars, pylsVars, instVars, detectVars>>

\* qnxEnvironmentFromEnvFile(fileName) up to waitForFinished: it returns at
\* once if the file does not exist or the wrapper cannot be opened, else it
\* starts the process (which may fail to start) and sets the busy cursor
QnxCall ==
    \E fileExists \in BOOLEAN, tmpOpened \in BOOLEAN, started \in BOOLEAN :
        /\ qnx.pc = "idle"
        /\ qnx' = IF ~fileExists
                  THEN [qnx EXCEPT !.pc = "returned"]
                  ELSE IF ~tmpOpened
                  THEN [qnx EXCEPT !.pc = "returned", !.fileExists = TRUE]
                  ELSE [qnx EXCEPT !.pc = "waiting", !.fileExists = TRUE,
                                   !.tmpOpened = TRUE,
                                   !.process = IF started THEN "running"
                                               ELSE "failedToStart",
                                   !.cursor = @ + 1]
        /\ UNCHANGED notQnxVars

\* the wrapper process ends while the call waits
QnxProcessEnds ==
    \E exitStatus \in ExitStatuses, exitCode \in ExitCodes,
       output \in SeqsUpTo(OutputLines, MaxLines) :
        /\ qnx.pc = "waiting" /\ qnx.process = "running"
        /\ qnx' = [qnx EXCEPT !.process = "ended", !.exitStatus = exitStatus,
                              !.exitCode = exitCode, !.output = output]
        /\ UNCHANGED notQnxVars

\* the rest of qnxEnvironmentFromEnvFile, from the return of waitForFinished:
\* with the process still running the 10 seconds are over
QnxWaitReturns ==
    /\ qnx.pc = "waiting"
    /\ LET waitResult == qnx.process # "running"
           restored == [qnx EXCEPT !.pc = "returned", !.waitResult = waitResult,
                                   !.cursor = @ - 1]
       IN  qnx' = IF ~waitResult
                  THEN [restored EXCEPT !.stopped = TRUE, !.process = "stopped"]
                  ELSE IF ExitFailed(qnx.exitStatus, qnx.exitCode)
                  THEN restored
                  ELSE [restored EXCEPT !.items = ParseOutput(qnx.output, <<>>)]
    /\ UNCHANGED notQnxVars

InitQnx == qnx \in { NewQnx(cursor) : cursor \in {0, 1} }

IdleQnx == qnx = NewQnx(0)

IdleExt == IdleVer /\ IdlePyls /\ IdleInstall /\ IdleDetect /\ IdleQnx

\* what a project is in the runs of the build registry: a Qt4 project with
\* an active build configuration, or a project of another kind
DumpProjects ==
    { [id |-> "Qt4Project", hasTarget |-> TRUE, versionId |-> v] : v \in Versions }
    \cup { [id |-> "Other", hasTarget |-> FALSE, versionId |-> NoVersion] }

\* the open projects are interchangeable: they are taken in the order of
\* their Qt versions, the projects of another kind first
InitDump ==
    /\ projects \in [Projects -> DumpProjects]
    /\ \A p \in Projects, q \in Projects :
          p < q => projects[p].versionId <= projects[q].versionId
    /\ qtVersions \in [Versions -> { [valid |-> TRUE, desktop |-> TRUE, header |-> h] :
                                       h \in BOOLEAN }]
    /\ tool \in [Versions -> {"none", "file", "dir"}]
    /\ qmlDumpBuilds = [v \in Versions |-> NoTask]
    /\ buildsStarted = [v \in Versions |-> 0]
    /\ modelManager \in BOOLEAN
    /\ projectInfo = [p \in Projects |-> EmptyStr]
    /\ gui = [pc |-> "idle", project |-> NoProject, version |-> NoVersion,
              path |-> EmptyStr]
    /\ finished = [count |-> 0, task |-> NoTask]

IdleDump ==
    /\ projects = [p \in Projects |->
                     [id |-> "Other", hasTarget |-> FALSE, versionId |-> NoVersion]]
    /\ qtVersions = [v \in Versions |-> [valid |-> TRUE, desktop |-> TRUE, header |-> TRUE]]
    /\ tool = [v \in Versions |-> "none"]
    /\ qmlDumpBuilds = [v \in Versions |-> NoTask]
    /\ buildsStarted = [v \in Versions |-> 0]
    /\ modelManager = TRUE
    /\ projectInfo = [p \in Projects |-> EmptyStr]
    /\ gui = [pc |-> "idle", project |-> NoProject, version |-> NoVersion,
              path |-> EmptyStr]
    /\ finished = [count |-> 0, task |-> NoTask]

DumpInit == IdleTree /\ IdleSym /\ InitDump /\ IdleExt
DumpNext ==
    \/ QmlDumpPathBegin
    \/ QmlDumpPathEnd
    \/ Run
    \/ RunStore
    \/ Finish
    \/ StoreReturnedPath
SpecQmlDump == DumpInit /\ [][DumpNext]_vars

\* the scheduling: a worker thread that has built goes on to the store, a
\* qmlDumpPath call returns, and the GUI thread's event loop delivers a queued
\* finish (the queue is first in, first out) however many calls are made
\* The runs start with every Qt version able to build qmldump and no
\* directory in the binary's place.
DumpFairInit ==
    /\ DumpInit
    /\ \A v \in Versions : qtVersions[v].header /\ tool[v] # "dir"
SpecQmlDumpFair ==
    /\ DumpFairInit /\ [][DumpNext]_vars
    /\ WF_vars(RunStore)
    /\ WF_vars(QmlDumpPathEnd)
    /\ SF_vars(Finish)

TreeInit == InitTree /\ IdleSym /\ IdleDump /\ IdleExt
TreeNext == MoveItemToTarget \/ FetchItemToTarget
SpecTree == TreeInit /\ [][TreeNext]_vars

SymbolInit == IdleTree /\ IdleSym /\ IdleDump /\ IdleExt
SymbolNext ==
    \/ IconTypeSortOrderCall
    \/ SetSymbolInformation
    \/ SetIconData
    \/ ReadSymbolInformation
SpecSymbol == SymbolInit /\ [][SymbolNext]_vars

VersionInit ==
    /\ IdleTree /\ IdleSym /\ InitVersions
    /\ IdleVer /\ IdlePyls /\ IdleInstall /\ IdleDetect /\ IdleQnx
VersionNext == QtVersionForProjectCall
SpecQtVersion == VersionInit /\ [][VersionNext]_vars

PylsInit ==
    /\ IdleTree /\ IdleSym /\ IdleDump
    /\ IdleVer /\ InitPyls /\ IdleInstall /\ IdleDetect /\ IdleQnx
PylsNext == CheckPythonLanguageServer
SpecPyls == PylsInit /\ [][PylsNext]_vars

InstallInit ==
    /\ IdleTree /\ IdleSym /\ IdleDump
    /\ IdleVer /\ IdlePyls /\ InitInstall /\ IdleDetect /\ IdleQnx
InstallNext ==
    \/ HelperRun
    \/ OutputAvailable
    \/ ProcessFinished
    \/ Cancel
SpecInstall == InstallInit /\ [][InstallNext]_vars

DetectInit ==
    /\ IdleTree /\ IdleSym /\ IdleDump
    /\ IdleVer /\ IdlePyls /\ IdleInstall /\ InitDetect /\ IdleQnx
DetectNext == DetectPython
SpecDetect == DetectInit /\ [][DetectNext]_vars

QnxInit ==
    /\ IdleTree /\ IdleSym /\ IdleDump
    /\ IdleVer /\ IdlePyls /\ IdleInstall /\ IdleDetect /\ InitQnx
QnxNext ==
    \/ QnxCall
    \/ QnxProcessEnds
    \/ QnxWaitReturns
SpecQnx == QnxInit /\ [][QnxNext]_vars

(***************************************************************************)
(* Properties of the tree reconciliation                                   *)
(***************************************************************************)
\* the SymbolInformation of each row, in row order
RowInfos(it) == [k \in 1..Len(it.rows) |-> symbolInformationFromItem(it.rows[k])]
InfoSet(it) == { symbolInformationFromItem(it.rows[k]) : k \in 1..Len(it.rows) }
RowIds(it) == { it.rows[k].id : k \in 1..Len(it.rows) }
StrictlyIncreasing(infos) ==
    \A k \in 1..(Len(infos) - 1) : InfoLess(infos[k], infos[k + 1])
RowsSorted(it) == StrictlyIncreasing(RowInfos(it))

RECURSIVE SameKeys(_, _)
\* the rows of a and b carry the same symbols in the same order, at every depth
SameKeys(a, b) ==
    /\ RowInfos(a) = RowInfos(b)
    /\ \A k \in 1..Len(a.rows) : SameKeys(a.rows[k], b.rows[k])

RECURSIVE Depth(_)
Depth(it) ==
    IF it.rows = <<>> THEN 0
    ELSE 1 + Depth(CHOOSE c \in { it.rows[k] : k \in 1..Len(it.rows) } :
                     \A k \in 1..Len(it.rows) : Depth(it.rows[k]) <= Depth(c))

RECURSIVE IsSubSeq(_, _)
\* s is t with some elements left out
IsSubSeq(s, t) ==
    IF s = <<>> THEN TRUE
    ELSE IF t = <<>> THEN FALSE
    ELSE IF Head(s) = Head(t) THEN IsSubSeq(Tail(s), Tail(t))
    ELSE IsSubSeq(s, Tail(t))

\* C1: after moveItemToTarget(item, target) on non-null trees with rows in any
\* order, the rows of item carry the symbols of the rows of target in the same
\* order, and so do the rows of every pair of corresponding rows.
C1_MoveConverges ==
    (lastOp = "move" /\ item # Null /\ target # Null) => SameKeys(item, target)

\* a move that removed, inserted and appended rows on a target two levels deep
C1_Witness ==
    /\ lastOp = "move" /\ calls = 1
    /\ rowOps.rem > 0 /\ rowOps.ins > 0 /\ rowOps.app > 0
    /\ Depth(target) = 2
    /\ ~RowsSorted(before)
    /\ SameKeys(item, target)

RowById(it, id) == it.rows[CHOOSE k \in 1..Len(it.rows) : it.rows[k].id = id]

\* at one level: rows whose symbol the target has are kept, the rows gone had
\* symbols the target lacks, the clones have symbols item lacked
KeptAtLevel(old, tgt, new) ==
    (RowsSorted(old) /\ RowsSorted(tgt)) =>
        /\ \A k \in 1..Len(old.rows) :
             (symbolInformationFromItem(old.rows[k]) \in InfoSet(tgt))
                 <=> (old.rows[k].id \in RowIds(new))
        /\ \A k \in 1..Len(new.rows) :
             IF new.rows[k].id = CloneId
             THEN symbolInformationFromItem(new.rows[k]) \notin InfoSet(old)
             ELSE new.rows[k].id \in RowIds(old)

RECURSIVE KeptEverywhere(_, _, _)
\* KeptAtLevel for the call and for every recursive call it makes: on row k of
\* the result and row k of the target, the row having been the row of the same
\* identity before, or a new clone
KeptEverywhere(old, tgt, new) ==
    /\ KeptAtLevel(old, tgt, new)
    /\ \A k \in 1..Len(new.rows) :
         k <= Len(tgt.rows) =>
           KeptEverywhere(IF new.rows[k].id \in RowIds(old)
                          THEN RowById(old, new.rows[k].id)
                          ELSE Clone(tgt.rows[k]),
                          tgt.rows[k], new.rows[k])

\* C3: in a call of moveItemToTarget, at every level where the rows of item and
\* of target are strictly increasing, a row of item whose symbol is among the
\* target's rows stays the same node, only rows whose symbol the target lacks
\* are removed, and only symbols item lacks are inserted as clones. (Checked on
\* the first call, where every node of the live tree has its own identity.)
C3_MoveKeepsNodes ==
    (lastOp = "move" /\ calls = 1) => KeptEverywhere(before, target, item)

\* a first move on sorted rows that kept a row and, in the recursive call on
\* it, removed a row and cloned another
C3_Witness ==
    /\ lastOp = "move" /\ calls = 1
    /\ RowsSorted(before) /\ RowsSorted(target)
    /\ rowOps.rem > 0 /\ rowOps.ins + rowOps.app > 0
    /\ \E k \in 1..Len(item.rows) :
         /\ item.rows[k].id \in RowIds(before)
         /\ RowById(before, item.rows[k].id).rows # <<>>
         /\ CloneId \in RowIds(item.rows[k])

\* C4: moveItemToTarget on an item whose symbols already equal the target's at
\* every depth calls no insertRow, appendRow or removeRow and leaves item as it
\* was.
C4_MoveIdempotent ==
    (lastOp = "move" /\ before # Null /\ target # Null /\ SameKeys(before, target))
        => (rowOps = NoOps /\ item = before)

\* a second move right after a first one that had changed the tree
C4_Witness ==
    /\ lastOp = "move" /\ calls = 2
    /\ SameKeys(before, target)
    /\ CloneId \in RowIds(before)
    /\ Depth(before) = 2
    /\ rowOps = NoOps /\ item = before

\* C5: a call of fetchItemToTarget removes no row, leaves the rows item had in
\* their order and untouched (rows are only added between, before or after
\* them), every symbol of a row of target is among the rows of item afterwards,
\* and target is not modified.
C5_FetchOnlyAdds ==
    [][(calls' = calls + 1 /\ lastOp' = "fetch" /\ item # Null /\ target # Null)
          => /\ target' = target
             /\ rowOps'.rem = 0
             /\ IsSubSeq(item.rows, item'.rows)
             /\ Len(item'.rows) = Len(item.rows) + rowOps'.ins + rowOps'.app
             /\ InfoSet(target) \subseteq InfoSet(item')
             /\ [item' EXCEPT !.rows = <<>>] = [item EXCEPT !.rows = <<>>]]_vars

\* a fetch on unsorted rows with a subtree that inserted a clone in front of them
C5_Witness ==
    /\ lastOp = "fetch" /\ calls = 1
    /\ ~RowsSorted(before)
    /\ Depth(before) = 2
    /\ rowOps.ins > 0
    /\ IsSubSeq(before.rows, item.rows)

(***************************************************************************)
(* Properties of the symbol data and of the icon sort order                *)
(***************************************************************************)
\* C6: what symbolInformationFromItem reads from an item is the
\* SymbolInformation setSymbolInformationToItem wrote to it; from an item whose
\* IconTypeRole is unset or holds no number, the icon type read is 0.
C6_SymbolRoundTrip ==
    readInfo # NoInfo =>
        /\ lastInfo # NoInfo => InfoEqual(readInfo, lastInfo)
        /\ stdItem.IconTypeRole \in
              {InvalidVariant, StrVariant(StrA), StrVariant(EmptyStr)}
                => readInfo.iconType = 0

\* a symbol with a type and an unlisted icon was set to the item and read back
C6_Witness ==
    /\ readInfo # NoInfo /\ lastInfo # NoInfo
    /\ readInfo = SymbolInformation(StrB, StrInt, CodeModelIcon.Property)
    /\ lastInfo = readInfo

\* the zero-based position of icon in Constants::IconSortOrder
PositionOf(icon) == (CHOOSE k \in 1..Len(IconSortOrder) : IconSortOrder[k] = icon) - 1
Listed(icon) == \E k \in 1..Len(IconSortOrder) : IconSortOrder[k] = icon

\* C7: iconTypeSortOrder(icon) returns the zero-based position of icon in
\* Constants::IconSortOrder if it is listed there and icon itself if not, on
\* the first call (which fills the table) as on every later one.
C7_IconSortOrder ==
    lastIcon # -1 =>
        /\ lastOrder = IF Listed(lastIcon) THEN PositionOf(lastIcon) ELSE lastIcon
        /\ lastIcon = firstIcon => lastOrder = firstOrder
        /\ HashCount(sortOrder) = Len(IconSortOrder)

\* a later call for the icon of the first call, a listed one whose position
\* differs from its value
C7_Witness ==
    /\ firstIcon = CodeModelIcon.Namespace /\ firstOrder = 0
    /\ lastIcon = firstIcon /\ lastOrder = 0
    /\ readInfo # NoInfo

(***************************************************************************)
(* Properties of the qmldump build registry                                *)
(***************************************************************************)
\* the step ends a qmlDumpPath call
CallReturns == gui.pc = "inCall" /\ gui'.pc = "idle"

\* C8: a qmldump build is started (a QmlDumpBuildTask created and run) for a
\* Qt version only by a call that finds no task for that version in
\* qmlDumpBuilds; a call that finds one starts nothing and at most adds its
\* project to that task's update set.
C8_OneBuildPerVersion ==
    [][\A v \in Versions :
         /\ buildsStarted'[v] # buildsStarted[v]
              => /\ qmlDumpBuilds[v] = NoTask
                 /\ CallReturns
                 /\ buildsStarted'[v] = buildsStarted[v] + 1
                 /\ qmlDumpBuilds'[v] = NewBuildTask(v, gui.project)
         /\ (qmlDumpBuilds[v] # NoTask /\ CallReturns)
              => /\ buildsStarted'[v] = buildsStarted[v]
                 /\ qmlDumpBuilds'[v] \in
                      { qmlDumpBuilds[v],
                        updateProjectWhenDone(qmlDumpBuilds[v], gui.project) }
         /\ (qmlDumpBuilds[v] = NoTask /\ qmlDumpBuilds'[v] # NoTask)
              => buildsStarted'[v] = buildsStarted[v] + 1]_vars

\* a second project was added to the running task of a version, one build started
C8_Witness ==
    \E v \in Versions :
        /\ qmlDumpBuilds[v] # NoTask
        /\ qmlDumpBuilds[v].pc = "running"
        /\ Cardinality(qmlDumpBuilds[v].projectsToUpdate) = 2
        /\ buildsStarted[v] = 1
        /\ gui.pc = "idle" /\ gui.version = v

\* C9: once run has ended with an empty path (m_failed true) the task stays in
\* qmlDumpBuilds as it is - finish is not queued, no project is added - no
\* build is started for its version, and every qmlDumpPath call that resolves
\* to that version returns an empty path.
C9_FailedNeverRetried ==
    [][\A v \in Versions :
         (qmlDumpBuilds[v] # NoTask /\ qmlDumpBuilds[v].failed)
            => /\ qmlDumpBuilds[v].pc = "ended"
               /\ qmlDumpBuilds'[v] = qmlDumpBuilds[v]
               /\ buildsStarted'[v] = buildsStarted[v]
               /\ (CallReturns /\ gui'.version = v) => gui'.path = EmptyStr]_vars

\* a call for the version of a failed task returned, made for a project the
\* task does not hold
C9_Witness ==
    \E v \in Versions :
        /\ qmlDumpBuilds[v] # NoTask
        /\ qmlDumpBuilds[v].failed
        /\ gui.pc = "idle" /\ gui.version = v /\ gui.path = EmptyStr
        /\ gui.project \notin qmlDumpBuilds[v].projectsToUpdate

\* C10: finish(path) removes the task's version from qmlDumpBuilds in every
\* case; with a model manager it sets qmlDumpPath to path for exactly the
\* projects of the task's update set whose qmlDumpPath is empty, and leaves
\* every other project's as it is; without one it changes no project.
C10_FinishUpdates ==
    [][finished'.count # finished.count =>
         LET task == finished'.task
         IN  /\ task # NoTask
             /\ qmlDumpBuilds[task.version] = task
             /\ qmlDumpBuilds'[task.version] = NoTask
             /\ \A v \in Versions \ {task.version} : qmlDumpBuilds'[v] = qmlDumpBuilds[v]
             /\ \A p \in Projects :
                  projectInfo'[p] =
                     IF modelManager /\ p \in task.projectsToUpdate
                        /\ projectInfo[p] = EmptyStr
                     THEN task.path
                     ELSE projectInfo[p]]_vars

\* a finish has run whose task held a project that keeps the other path it had
C10_Witness ==
    /\ finished.count > 0
    /\ modelManager
    /\ qmlDumpBuilds[finished.task.version] = NoTask
    /\ \E p \in finished.task.projectsToUpdate :
         /\ projectInfo[p] # EmptyStr
         /\ projectInfo[p] # finished.task.path
    /\ gui.project \notin finished.task.projectsToUpdate

\* the qmldump build of version v has succeeded: run has found the tool
RunSucceeded(v) ==
    /\ qmlDumpBuilds[v] # NoTask
    /\ qmlDumpBuilds[v].pc \in {"storing", "finishQueued"}
    /\ qmlDumpBuilds[v].path # EmptyStr

\* C11: when run has succeeded finish eventually runs and empties the
\* registry entry of the version; until then every qmlDumpPath call that finds
\* the task (also one made after run has completed) adds its project, the
\* update set loses no project, and finish leaves no project of the set it
\* finds with an empty qmlDumpPath if there is a model manager.
C11_EventuallyUpdated ==
    /\ \A v \in Versions : RunSucceeded(v) ~> (qmlDumpBuilds[v] = NoTask)
    /\ [][\A v \in Versions :
            /\ (CallReturns /\ gui'.version = v /\ gui.path = EmptyStr
                    /\ (qmlDumpBuilds[v] # NoTask => (qmlDumpBuilds[v].pc = "running"
                                                        \/ RunSucceeded(v))))
                 => /\ qmlDumpBuilds'[v] # NoTask
                    /\ gui.project \in qmlDumpBuilds'[v].projectsToUpdate
            /\ (qmlDumpBuilds[v] # NoTask /\ qmlDumpBuilds'[v] # NoTask)
                 => qmlDumpBuilds[v].projectsToUpdate
                       \subseteq qmlDumpBuilds'[v].projectsToUpdate
            /\ (qmlDumpBuilds[v] # NoTask /\ qmlDumpBuilds'[v] = NoTask)
                 => /\ RunSucceeded(v)
                    /\ finished'.task = qmlDumpBuilds[v]
                    /\ modelManager =>
                          \A p \in qmlDumpBuilds[v].projectsToUpdate :
                              projectInfo'[p] # EmptyStr]_vars

\* finish has run for a task that two projects had asked, and has set the
\* qmlDumpPath of both
C11_Witness ==
    /\ finished.count > 0
    /\ modelManager
    /\ gui.pc = "idle"
    /\ gui.version = finished.task.version
    /\ Cardinality(finished.task.projectsToUpdate) = 2
    /\ \A p \in finished.task.projectsToUpdate : projectInfo[p] = finished.task.path
    /\ qmlDumpBuilds[gui.version] = NoTask

\* C12: qmlDumpPath returns a non-empty path only if a file is there; it
\* returns an empty path when qtVersionForProject finds no version, when a
\* version is found and toolForProject found no tool - the registry then holds
\* a task for the version, the one it held or a new one - and when what
\* toolForProject located is no file.
C12_ReturnedPath ==
    [][CallReturns =>
         LET version == qtVersionForProject(gui.project)
         IN  /\ gui'.path # EmptyStr
                  => /\ gui'.path = gui.path
                     /\ tool[Head(gui'.path)] = "file"
             /\ version = NoVersion => gui'.path = EmptyStr
             /\ (version # NoVersion /\ gui.path = EmptyStr)
                  => /\ gui'.path = EmptyStr
                     /\ qmlDumpBuilds'[version] # NoTask
                     /\ \/ /\ qmlDumpBuilds[version] = NoTask
                            /\ qmlDumpBuilds'[version] = NewBuildTask(version, gui.project)
                        \/ /\ qmlDumpBuilds[version] # NoTask
                            /\ qmlDumpBuilds'[version].pc = qmlDumpBuilds[version].pc
             /\ (gui.path # EmptyStr /\ tool[Head(gui.path)] # "file")
                  => gui'.path = EmptyStr]_vars

\* a call has returned an empty path for a version at whose tool path a
\* directory is
C12_Witness ==
    \E v \in Versions :
        /\ gui.pc = "idle" /\ gui.project # NoProject
        /\ gui.version = v /\ gui.path = EmptyStr
        /\ tool[v] = "dir"
        /\ qmlDumpBuilds[v] = NoTask

\* C14: the GUI thread is never at the hasFailed() call of qmlDumpPath while
\* the worker thread of the same task is at the store of m_failed in run.
C14_FlagNeverRaced ==
    \A v \in Versions :
        ~ /\ gui.pc = "inCall" /\ gui.path = EmptyStr
          /\ qtVersionForProject(gui.project) = v
          /\ qmlDumpBuilds[v] # NoTask
          /\ qmlDumpBuilds[v].pc = "storing"

(***************************************************************************)
(* Properties of qtVersionForProject                                       *)
(***************************************************************************)
\* the least of a non-empty set of version ids: the first in validVersions order
FirstOf(S) == CHOOSE v \in S : \A w \in S : v <= w

\* the valid desktop versions that have a qmldump binary, that can build one
DesktopWithTool ==
    { v \in Versions : qtVersions[v].valid /\ qtVersions[v].desktop /\ tool[v] # "none" }
DesktopBuildable ==
    { v \in Versions : qtVersions[v].valid /\ qtVersions[v].desktop /\ canBuild(v) }

\* C13: for a Qt4 project qtVersionForProject returns the version of the
\* active build configuration if there is one and it is valid, and none if
\* not; for a project that is neither a Qt4 project nor a QmlProject, and for a
\* null project, the first valid desktop version that has a qmldump binary,
\* if there is none the first valid desktop version that can build it, and
\* none if there is none either.
C13_VersionPicked ==
    picked # NoPick =>
        LET kind == IF picked.project = NoProject THEN "Other"
                    ELSE projects[picked.project].id
        IN  /\ kind = "Qt4Project" =>
                  picked.version =
                     IF projects[picked.project].hasTarget
                        /\ qtVersions[projects[picked.project].versionId].valid
                     THEN projects[picked.project].versionId
                     ELSE NoVersion
            /\ kind = "Other" =>
                  picked.version =
                     IF DesktopWithTool # {} THEN FirstOf(DesktopWithTool)
                     ELSE IF DesktopBuildable # {} THEN FirstOf(DesktopBuildable)
                     ELSE NoVersion

\* a null project got the second version, which has the tool, though the
\* first one could build it
C13_Witness ==
    /\ picked # NoPick
    /\ picked.project = NoProject
    /\ picked.version = 2
    /\ 1 \in DesktopBuildable
    /\ tool[1] = "none"

(***************************************************************************)
(* Properties of the python helpers                                        *)
(***************************************************************************)
\* needle occurs in s at some place
Occurs(s, needle) ==
    \E k \in 0..(Len(s) - Len(needle)) : SubSeq(s, k + 1, k + Len(needle)) = needle

\* the positions of the settings whose pyls module path is the interpreter's
MatchingSettings ==
    { i \in 1..Len(lsInput.settings) :
         lsInput.settings[i].modulePath = lsInput.modulePath }

\* C15: if the output of 'python -m pyls -h' contains "Python Language
\* Server" the state is AlreadyConfigured or ConfiguredButDisabled as the
\* first setting whose pyls module path is the interpreter's is enabled or
\* not, and AlreadyInstalled with the module path if no setting has it; if
\* not, it is CanBeInstalled if the output of 'python -m pip -V' starts with
\* "pip " and CanNotBeInstalled otherwise.
C15_LanguageServerState ==
    lsState # NoState =>
        IF Occurs(lsInput.help, PylsBanner)
        THEN IF MatchingSettings # {}
             THEN LET first == CHOOSE i \in MatchingSettings :
                                  \A j \in MatchingSettings : i <= j
                  IN  lsState.state = IF lsInput.settings[first].enabled
                                      THEN "AlreadyConfigured"
                                      ELSE "ConfiguredButDisabled"
             ELSE lsState = LanguageServerState("AlreadyInstalled", lsInput.modulePath)
        ELSE /\ Len(lsInput.pip) >= 4 /\ SubSeq(lsInput.pip, 1, 4) = PipPrefix
                  => lsState.state = "CanBeInstalled"
             /\ ~(Len(lsInput.pip) >= 4 /\ SubSeq(lsInput.pip, 1, 4) = PipPrefix)
                  => lsState.state = "CanNotBeInstalled"

\* two settings have the interpreter's module path, the first disabled and
\* the second enabled, and the state is ConfiguredButDisabled
C15_Witness ==
    /\ lsState # NoState
    /\ lsState.state = "ConfiguredButDisabled"
    /\ Len(lsInput.settings) = 2
    /\ MatchingSettings = {1, 2}
    /\ ~lsInput.settings[1].enabled /\ lsInput.settings[2].enabled
    /\ lsInput.modulePath # EmptyStr

\* s is the start of t
IsPrefix(s, t) == Len(s) <= Len(t) /\ SubSeq(t, 1, Len(s)) = s

\* C16: a step registers a language server or reopens a document only if it
\* runs installFinished with NormalExit and exit code 0; installFinished with
\* any other end of the process (an exit code other than 0, a crash, the
\* process stopped by cancel) registers nothing, reopens nothing and writes
\* the failure message; in both cases it reports the future finished and
\* schedules the helper for deletion.
C16_InstallFinished ==
    [][/\ (clientSettings' # clientSettings \/ reopened' # reopened)
            => /\ helper.pc = "running" /\ helper'.pc = "finished"
               /\ helper'.exitStatus = "NormalExit" /\ helper'.exitCode = 0
               /\ clientSettings' =
                     Append(clientSettings,
                            [executable |-> helper.python, arguments |-> "-m pyls",
                             mimeTypes |-> <<"text/x-python">>])
               /\ reopened' \in {reopened, Append(reopened, helper.document)}
       /\ (helper.pc = "running" /\ helper'.pc = "finished")
            => /\ helper'.futureFinished /\ helper'.deleteLater
               /\ IsPrefix(messages, messages')
               /\ LET failureWritten ==
                         \E k \in (Len(messages) + 1)..Len(messages') :
                             messages'[k] = FailedMsg(helper'.exitCode)
                  IN  IF helper'.exitStatus = "NormalExit" /\ helper'.exitCode = 0
                      THEN /\ ~failureWritten
                           /\ clientSettings' # clientSettings
                      ELSE /\ failureWritten
                           /\ clientSettings' = clientSettings
                           /\ reopened' = reopened]_vars

\* the process was stopped when the timer fired and ended with exit code 0:
\* nothing is registered, the failure message is written, the future finished
C16_Witness ==
    /\ helper.pc = "finished" /\ helper.process = "killed"
    /\ helper.exitStatus = "CrashExit" /\ helper.exitCode = 0
    /\ helper.futureFinished /\ helper.deleteLater
    /\ clientSettings = <<>> /\ reopened = <<>>
    /\ Len(messages) >= 3
    /\ messages[Len(messages) - 1] = FailedMsg(0)
    /\ messages[Len(messages)] = CanceledMsg("time out")

\* the interpreter of the active run configuration of the Python project the
\* document belongs to or, if it belongs to none, of the startup project
ProjectCandidate ==
    LET owner == pyInput.projectForFile
        start == pyInput.startupProject
        project == IF owner # NoProjectFound /\ owner.isPython THEN owner
                   ELSE IF start # NoProjectFound /\ start.isPython THEN start
                   ELSE NoProjectFound
    IN  IF project # NoProjectFound /\ project.hasTarget /\ project.pyRunConfig
        THEN project.interpreter
        ELSE EmptyStr

\* C17: detectPython returns the interpreter of the active run configuration
\* of the Python project of the document (of the startup project if the
\* document has none) if that path exists; if not, the default interpreter if
\* it exists; if not, the first configured interpreter if there is one; the
\* path returned exists whenever one of the three exists.
C17_DetectPython ==
    python # NoPythonYet =>
        LET isThere(path) == path \in pyInput.existing
            candidates == {ProjectCandidate, pyInput.defaultInterpreter}
                          \cup (IF pyInput.interpreters # <<>>
                                THEN {pyInput.interpreters[1]} ELSE {})
        IN  /\ IF isThere(ProjectCandidate) THEN python = ProjectCandidate
               ELSE IF isThere(pyInput.defaultInterpreter)
                    THEN python = pyInput.defaultInterpreter
               ELSE IF pyInput.interpreters # <<>>
                    THEN python = pyInput.interpreters[1]
               ELSE TRUE
            /\ (\E c \in candidates : isThere(c)) => isThere(python)

\* the document belongs to a project that is no Python project, and the
\* interpreter of the startup project is returned, not the existing default
C17_Witness ==
    /\ python # NoPythonYet
    /\ pyInput.projectForFile # NoProjectFound
    /\ ~pyInput.projectForFile.isPython
    /\ pyInput.startupProject # NoProjectFound
    /\ python = pyInput.startupProject.interpreter
    /\ python \in pyInput.existing
    /\ pyInput.defaultInterpreter \in pyInput.existing
    /\ pyInput.defaultInterpreter # python

(***************************************************************************)
(* Properties of qnxEnvironmentFromEnvFile                                 *)
(***************************************************************************)
\* C18: qnxEnvironmentFromEnvFile returns an empty list when the file does
\* not exist, when the wrapper script cannot be opened, when the process is
\* still running at the end of the wait (it is then stopped), and when the
\* process has ended with another exit status than NormalExit or another
\* exit code than 0; the busy cursor is set during the wait and the cursor
\* stack is as it was at the call whenever the call has returned.
C18_EmptyOnFailure ==
    /\ qnx.pc = "waiting" => qnx.cursor = qnx.cursorAtCall + 1
    /\ qnx.pc = "returned" =>
          /\ qnx.cursor = qnx.cursorAtCall
          /\ ~qnx.fileExists => qnx.items = <<>>
          /\ ~qnx.tmpOpened => qnx.items = <<>>
          /\ (qnx.tmpOpened /\ ~qnx.waitResult)
                => qnx.items = <<>> /\ qnx.stopped
          /\ (qnx.exitStatus # "NormalExit" \/ qnx.exitCode # 0) => qnx.items = <<>>
          /\ qnx.stopped => (qnx.tmpOpened /\ ~qnx.waitResult)

\* the process crashed with exit code 0 after it had printed a variable:
\* nothing is returned, the cursor is restored
C18_Witness ==
    /\ qnx.pc = "returned"
    /\ qnx.waitResult
    /\ qnx.exitStatus = "CrashExit" /\ qnx.exitCode = 0
    /\ qnx.output = << <<65, 61, 98>> >>
    /\ qnx.items = <<>>
    /\ qnx.cursorAtCall = 1 /\ qnx.cursor = 1

====
